---- MODULE Spec2Model ----
(***************************************************************************)
(* PCIe root port of StratoVirt (pci/src/root_port.rs): configuration      *)
(* space access, realization on the parent bus, decode-enable driven       *)
(* window installation and the migration state transfer.                   *)
(*                                                                         *)
(* The parent bus (pci/src/bus.rs), the address-region containers          *)
(* (address_space), PciConfig (pci/src/config.rs) and ByteCode             *)
(* (util::byte_code) are modelled from the design document; everything     *)
(* in root_port.rs is modelled from its code.                              *)
(* The model is the x86_64 build (the I/O window exists), with             *)
(* multifunction = false as in the unit tests.                             *)
(*                                                                         *)
(* Byte arrays (the configuration space, the two masks, the migration      *)
(* bytes) are kept by their non-zero bytes: a function from the indices    *)
(* that hold a non-zero byte to that byte; every other index holds 0.      *)
(***************************************************************************)
EXTENDS Integers, Sequences, FiniteSets, TLC

(***************************************************************************)
(* Bounds of the model.                                                    *)
(***************************************************************************)
NumPorts == 2          \* root ports that may be constructed
MaxDataLen == 5        \* longest data slice handed to read/write_config

Ports == 1..NumPorts

(***************************************************************************)
(* Program constants.                                                      *)
(***************************************************************************)
PCIE_CONFIG_SPACE_SIZE == 4096
PCI_CONFIG_SPACE_SIZE == 256
PCI_CONFIG_HEAD_END == 64
VENDOR_ID == 0
DEVICE_ID == 2
COMMAND == 4
STATUS == 6
SUB_CLASS_CODE == 10
HEADER_TYPE == 14
BAR_0 == 16
REG_SIZE == 4
IO_BASE == 28
IO_LIMIT == 29
SECONDARY_STATUS == 30
MEMORY_BASE == 32
MEMORY_LIMIT == 34
PREF_MEMORY_BASE == 36
PREF_MEMORY_LIMIT == 38
CAP_LIST == 52
COMMAND_IO_SPACE == 1
COMMAND_MEMORY_SPACE == 2
PCI_VENDOR_ID_REDHAT == 6966      \* 0x1b36
DEVICE_ID_RP == 12                \* 0x000c
CLASS_CODE_PCI_BRIDGE == 1540     \* 0x0604
HEADER_TYPE_BRIDGE == 1
PREF_MEM_RANGE_64BIT == 1
STATUS_CAP_LIST == 16
CAP_ID_EXP == 16
CAP_ID_MSIX == 17
PCI_EXP_VER2_SIZEOF == 60
MSIX_CAP_SIZE == 12
U16_SIZE == 2

Space == 0..(PCIE_CONFIG_SPACE_SIZE - 1)

(***************************************************************************)
(* Machine words and util::num_ops.  A u32, u64 or usize is the set of the *)
(* positions of its 1 bits (bit 0 the least significant), so that the full *)
(* widths are kept; the width w of an operation is 32 or 64.  An           *)
(* arithmetic overflow panics in a build with overflow checks (debug) and  *)
(* wraps in a build without them (release), where a shift amount is taken  *)
(* modulo the width.                                                       *)
(***************************************************************************)
U32_BITS == 32
U64_BITS == 64
USIZE_BITS == 64       \* both supported targets (x86_64, aarch64) are 64-bit
ToWord(n) == {i \in 0..30 : (n \div (2 ^ i)) % 2 = 1}
U32_MAX == 0..(U32_BITS - 1)
U64_MAX == 0..(U64_BITS - 1)
USIZE_MAX == 0..(USIZE_BITS - 1)

RECURSIVE ToInt(_)
ToInt(S) == IF S = {} THEN 0
            ELSE LET i == CHOOSE j \in S : TRUE IN 2 ^ i + ToInt(S \ {i})

Some(v) == [kind |-> "some", value |-> v]
None == [kind |-> "none", value |-> {}]
Panic == [kind |-> "panic", value |-> {}]

\* S has no 1 bit at the positions lo..hi-1.
Clear(S, lo, hi) == \A i \in S : i < lo \/ i >= hi

\* Bits lo..hi-1 of S + T with carry c into bit lo, and the carry out of
\* bit hi-1; the range is halved so that the nesting stays shallow, and a
\* range in which one operand is zero and no carry comes in has the bits of
\* the other.
RECURSIVE AddRange(_, _, _, _, _)
AddRange(S, T, lo, hi, c) ==
    IF ~c /\ (Clear(S, lo, hi) \/ Clear(T, lo, hi))
    THEN [bits |-> {i \in S \cup T : lo <= i /\ i < hi}, carry |-> FALSE]
    ELSE IF hi = lo + 1
    THEN LET s == lo \in S
             t == lo \in T
         IN  [bits |-> IF (s # t) # c THEN {lo} ELSE {},
              carry |-> (s /\ t) \/ (c /\ (s \/ t))]
    ELSE LET mid == (lo + hi) \div 2
             low == AddRange(S, T, lo, mid, c)
             high == AddRange(S, T, mid, hi, low.carry)
         IN  [bits |-> low.bits \cup high.bits, carry |-> high.carry]

\* Bits lo..hi-1 of S - T with borrow b from bit lo, and the borrow out; a
\* range in which T is zero and no borrow comes in has the bits of S.
RECURSIVE SubRange(_, _, _, _, _)
SubRange(S, T, lo, hi, b) ==
    IF ~b /\ Clear(T, lo, hi)
    THEN [bits |-> {i \in S : lo <= i /\ i < hi}, borrow |-> FALSE]
    ELSE IF hi = lo + 1
    THEN LET s == lo \in S
             t == lo \in T
         IN  [bits |-> IF (s # t) # b THEN {lo} ELSE {},
              borrow |-> (~s /\ (t \/ b)) \/ (t /\ b)]
    ELSE LET mid == (lo + hi) \div 2
             low == SubRange(S, T, lo, mid, b)
             high == SubRange(S, T, mid, hi, low.borrow)
         IN  [bits |-> low.bits \cup high.bits, borrow |-> high.borrow]

\* S < T for values of w bits: T has a 1 bit that S lacks, above every bit
\* that S has and T lacks.
Lt(S, T, w) == \E i \in T \ S : i < w /\ \A j \in S \ T : j < i
Gt(S, T, w) == Lt(T, S, w)
Ge(S, T, w) == ~Lt(S, T, w)
wrapping_sub(S, T, w) == SubRange(S, T, 0, w, FALSE).bits
checked_add(S, T, w) ==
    LET r == AddRange(S, T, 0, w, FALSE) IN IF r.carry THEN None ELSE Some(r.bits)
checked_sub(S, T, w) ==
    IF Lt(S, T, w) THEN None ELSE Some(wrapping_sub(S, T, w))

\* x % a for a # 0, by long division over bits hi-1 down to lo of x: r is
\* the remainder of the bits of x from hi up, and stays below a.
RECURSIVE RemRange(_, _, _, _, _, _)
RemRange(x, a, lo, hi, r, w) ==
    IF hi = lo + 1
    THEN LET r2 == {j + 1 : j \in r} \cup (IF lo \in x THEN {0} ELSE {})
             d == SubRange(r2, a, 0, w + 1, FALSE)
         IN  IF d.borrow THEN r2 ELSE d.bits
    ELSE LET mid == (lo + hi) \div 2
             upper == RemRange(x, a, mid, hi, r, w)
         IN  IF upper = {} /\ x \cap (lo..(mid - 1)) = {} THEN {}
             ELSE RemRange(x, a, lo, mid, upper, w)

Rem(x, a, w) == RemRange(x, a, 0, w, {}, w)

Shr(S, n) == {i - n : i \in {j \in S : j >= n}}
Shl(S, n, w) == {i + n : i \in {j \in S : j + n < w}}
Not(S, w) == (0..(w - 1)) \ S

\* The amount of a shift of a w-bit value by n: n itself when n < w;
\* otherwise a panic (-1) with overflow checks and n modulo w without.
ShiftAmount(n, w, overflow_checks) ==
    IF Lt(n, ToWord(w), U64_BITS) THEN ToInt(n)
    ELSE IF overflow_checks THEN -1
    ELSE ToInt({i \in n \cap (0..5) : 2 ^ i < w})

\* round_up with a wrapping addition in place of the checked one.
round_up_wrapping(origin, align) ==
    IF align = {} THEN Panic
    ELSE LET diff == Rem(origin, align, U64_BITS) IN
         IF diff = {} THEN Some(origin)
         ELSE Some(AddRange(origin, wrapping_sub(align, diff, U64_BITS), 0,
                            U64_BITS, FALSE).bits)

round_up(origin, align) ==
    IF align = {} THEN Panic
    ELSE LET diff == Rem(origin, align, U64_BITS) IN
         IF diff = {} THEN Some(origin)
         ELSE checked_add(origin, wrapping_sub(align, diff, U64_BITS), U64_BITS)

round_down(origin, align) ==
    IF align = {} THEN Panic
    ELSE LET diff == Rem(origin, align, U64_BITS) IN
         IF diff = {} THEN Some(origin)
         ELSE checked_sub(origin, diff, U64_BITS)

\* `length > w - start`, the guard of the three bit-field helpers, in u32
\* arithmetic: "panic", "reject" or "pass".
field_check(start, length, w, overflow_checks) ==
    IF Lt(ToWord(w), start, U32_BITS) /\ overflow_checks THEN "panic"
    ELSE IF Lt(wrapping_sub(ToWord(w), start, U32_BITS), length, U32_BITS)
    THEN "reject"
    ELSE "pass"

\* `!0 >> (w - length)`
field_mask(length, w, overflow_checks) ==
    LET underflow == Lt(ToWord(w), length, U32_BITS)
        n == ShiftAmount(wrapping_sub(ToWord(w), length, U32_BITS), w,
                         overflow_checks)
    IN  IF (underflow /\ overflow_checks) \/ n < 0 THEN Panic
        ELSE Some(Shr(Not({}, w), n))

extract(value, start, length, w, overflow_checks) ==
    LET chk == field_check(start, length, w, overflow_checks)
        sh == ShiftAmount(start, w, overflow_checks)
        mask == field_mask(length, w, overflow_checks)
    IN  IF chk = "panic" THEN Panic
        ELSE IF chk = "reject" THEN None
        ELSE IF sh < 0 \/ mask.kind = "panic" THEN Panic
        ELSE Some(Shr(value, sh) \cap mask.value)

extract_u32(value, start, length, overflow_checks) ==
    extract(value, start, length, U32_BITS, overflow_checks)

extract_u64(value, start, length, overflow_checks) ==
    extract(value, start, length, U64_BITS, overflow_checks)

deposit_u32(value, start, length, fieldval, overflow_checks) ==
    LET chk == field_check(start, length, U32_BITS, overflow_checks)
        sh == ShiftAmount(start, U32_BITS, overflow_checks)
        low == field_mask(length, U32_BITS, overflow_checks)
    IN  IF chk = "panic" THEN Panic
        ELSE IF chk = "reject" THEN None
        ELSE IF sh < 0 \/ low.kind = "panic" THEN Panic
        ELSE LET mask == Shl(low.value, sh, U32_BITS) IN
             Some((value \cap Not(mask, U32_BITS))
                    \cup (Shl(fieldval, sh, U32_BITS) \cap mask))

(***************************************************************************)
(* Byte arrays by their non-zero bytes.                                    *)
(***************************************************************************)
ZeroSpace == [i \in {} |-> 0]

Get(a, i) == IF i \in DOMAIN a THEN a[i] ELSE 0

Put(a, i, v) ==
    IF v = 0 THEN [j \in DOMAIN a \ {i} |-> a[j]]
    ELSE [j \in DOMAIN a \cup {i} |-> IF j = i THEN v ELSE a[j]]

(***************************************************************************)
(* Bit operations on bytes and little-endian 16-bit access.                *)
(***************************************************************************)
RECURSIVE BitAnd(_, _)
BitAnd(a, b) ==
    IF a = 0 \/ b = 0 THEN 0
    ELSE (a % 2) * (b % 2) + 2 * BitAnd(a \div 2, b \div 2)

BitOr(a, b) == a + b - BitAnd(a, b)

BitNot8(a) == 255 - a

le_read_u16(buf, offset) == Get(buf, offset) + 256 * Get(buf, offset + 1)

le_write_u16(buf, offset, v) ==
    Put(Put(buf, offset, v % 256), offset + 1, (v \div 256) % 256)

\* crate::ranges_overlap on usize operands.
ranges_overlap(start, end, range_start, range_end) ==
    ~(Ge(start, range_end, USIZE_BITS) \/ Ge(range_start, end, USIZE_BITS))

(***************************************************************************)
(* PciConfig: the configuration-space model owned by the device.           *)
(***************************************************************************)
PciConfig_new ==
    [config              |-> ZeroSpace,
     write_mask          |-> ZeroSpace,
     write_clear_mask    |-> ZeroSpace,
     last_cap_end        |-> PCI_CONFIG_HEAD_END,
     last_ext_cap_offset |-> 0,
     last_ext_cap_end    |-> PCI_CONFIG_SPACE_SIZE]

\* Bound and size validation shared by read and write of the model: the
\* offset is a usize and offset + size is the number, not the wrapped sum
\* (one more bit than a usize holds it).
PciConfig_invalid(offset, size) ==
    \/ Gt(AddRange(offset, ToWord(size), 0, USIZE_BITS + 1, FALSE).bits,
          ToWord(PCIE_CONFIG_SPACE_SIZE), USIZE_BITS + 1)
    \/ size > 4

\* read: raw bytes, no masking; a rejected access leaves the buffer alone.
PciConfig_read(cfg, offset, buf) ==
    IF PciConfig_invalid(offset, Len(buf)) THEN buf
    ELSE [i \in 1..Len(buf) |-> Get(cfg.config, ToInt(offset) + i - 1)]

\* One byte of a write: writable bits taken from the data, then the
\* write-clear bits are cleared.
PciConfig_write_byte(old, wmask, wcmask, d) ==
    BitAnd(BitOr(BitAnd(old, BitNot8(wmask)), BitAnd(d, wmask)), BitNot8(wcmask))

RECURSIVE PciConfig_write_from(_, _, _, _)
PciConfig_write_from(space, cfg, offset, data) ==
    IF data = << >> THEN space
    ELSE PciConfig_write_from(
             Put(space, offset,
                 PciConfig_write_byte(Get(space, offset),
                                      Get(cfg.write_mask, offset),
                                      Get(cfg.write_clear_mask, offset),
                                      Head(data))),
             cfg, offset + 1, Tail(data))

PciConfig_write(cfg, offset, data) ==
    IF PciConfig_invalid(offset, Len(data)) THEN cfg
    ELSE [cfg EXCEPT !.config =
             PciConfig_write_from(cfg.config, cfg, ToInt(offset), data)]

\* update_bar_mapping re-installs BAR windows into the regions it is given
\* and returns Ok or a region-overlap error; which of the two is left open.
BarOutcomes == {"ok", "overlap"}
PciConfig_update_bar_mapping(cfg, outcome) == outcome

init_common_write_mask(cfg) ==
    [cfg EXCEPT !.write_mask =
        le_write_u16(Put(Put(@, 12, 255), 60, 255), COMMAND, 1287)]

init_bridge_write_mask(cfg) ==
    [cfg EXCEPT !.write_mask =
        le_write_u16(le_write_u16(
            Put(Put(@, IO_BASE, 240), IO_LIMIT, 240),
            MEMORY_BASE, 65520), MEMORY_LIMIT, 65520)]

init_common_write_clear_mask(cfg) ==
    [cfg EXCEPT !.write_clear_mask = le_write_u16(@, STATUS, 63744)]

init_bridge_write_clear_mask(cfg) ==
    [cfg EXCEPT !.write_clear_mask = le_write_u16(@, SECONDARY_STATUS, 63744)]

\* Appends a capability of `size` bytes at last_cap_end and links it in.
add_pci_cap(cfg, id, size) ==
    LET at == cfg.last_cap_end IN
    [cfg EXCEPT
        !.config = Put(Put(Put(Put(@, at, id),
                               at + 1, Get(cfg.config, CAP_LIST)),
                           CAP_LIST, at),
                       STATUS, BitOr(Get(cfg.config, STATUS), STATUS_CAP_LIST)),
        !.last_cap_end = at + size]

add_pcie_cap(cfg) == add_pci_cap(cfg, CAP_ID_EXP, PCI_EXP_VER2_SIZEOF)

init_msix(cfg) == add_pci_cap(cfg, CAP_ID_MSIX, MSIX_CAP_SIZE)

(***************************************************************************)
(* Address regions: a container is the sequence of its (region, offset,    *)
(* size) entries.                                                          *)
(***************************************************************************)
IoRegion(p) == <<"io", p>>
MemRegion(p) == <<"mem", p>>

\* The sizes RootPort::new gives its windows (lines 80 and 82), u64 values.
IO_REGION_SIZE == {16}         \* 1 << 16
MEM_REGION_SIZE == U64_MAX     \* u64::max_value()

\* offset + size, the end of a range of u64 addresses, as a number (one more
\* bit than a u64 holds it).
RangeEnd(offset, size) == AddRange(offset, size, 0, U64_BITS + 1, FALSE).bits

\* The entry e and the range [offset, offset + size) have an address in
\* common.
Overlaps(e, offset, size) ==
    /\ Lt(e.offset, RangeEnd(offset, size), U64_BITS + 1)
    /\ Lt(offset, RangeEnd(e.offset, e.size), U64_BITS + 1)

\* add_subregion without the overlap test.
add_subregion_unchecked(container, region, offset, size) ==
    [ok |-> TRUE,
     subregions |-> Append(container,
                       [region |-> region, offset |-> offset, size |-> size])]

\* add_subregion: whether it succeeded and the container after the call
\* (unchanged on a conflict).
add_subregion(container, region, offset, size) ==
    IF \A i \in 1..Len(container) : ~Overlaps(container[i], offset, size)
    THEN [ok |-> TRUE,
          subregions |-> Append(container,
                            [region |-> region, offset |-> offset, size |-> size])]
    ELSE [ok |-> FALSE, subregions |-> container]

(***************************************************************************)
(* RootPort: the pure parts of its operations.                             *)
(***************************************************************************)
\* RootPort::new: a zeroed PCIe configuration space with two BAR slots.
RootPort_new == PciConfig_new

\* realize, up to the point where the parent bus is touched: masks, IDs,
\* bridge class, header type, 64-bit prefetchable flags, PCIe and MSI-X
\* capabilities.
realize_config(cfg) ==
    LET masked == init_bridge_write_clear_mask(init_common_write_clear_mask(
                      init_bridge_write_mask(init_common_write_mask(cfg))))
        ids == le_write_u16(le_write_u16(le_write_u16(masked.config,
                      VENDOR_ID, PCI_VENDOR_ID_REDHAT),
                      DEVICE_ID, DEVICE_ID_RP),
                      SUB_CLASS_CODE, CLASS_CODE_PCI_BRIDGE)
        hdr == Put(Put(Put(ids, HEADER_TYPE, HEADER_TYPE_BRIDGE),
                       PREF_MEMORY_BASE, PREF_MEM_RANGE_64BIT),
                   PREF_MEMORY_LIMIT, PREF_MEM_RANGE_64BIT)
    IN  init_msix(add_pcie_cap([masked EXCEPT !.config = hdr]))

\* `offset + size` of lines 180 and 193, a usize addition: the low
\* USIZE_BITS bits of the sum and whether it overflowed.
access_end(offset, size) == AddRange(offset, ToWord(size), 0, USIZE_BITS, FALSE)

\* The guard with the size test off by one: a 4-byte access is refused.
access_check_size_off_by_one(offset, size, overflow_checks) ==
    LET end == access_end(offset, size) IN
    IF end.carry /\ overflow_checks THEN "panic"
    ELSE IF Gt(end.bits, ToWord(PCIE_CONFIG_SPACE_SIZE), USIZE_BITS) \/ size >= 4
    THEN "reject"
    ELSE "pass"

\* The guard of read_config and write_config,
\* `offset + size > PCIE_CONFIG_SPACE_SIZE || size > 4`: "panic" when the
\* addition overflows in a build with overflow checks, else "reject" or
\* "pass" (in a build without the checks the sum has wrapped).
access_check(offset, size, overflow_checks) ==
    LET end == access_end(offset, size) IN
    IF end.carry /\ overflow_checks THEN "panic"
    ELSE IF Gt(end.bits, ToWord(PCIE_CONFIG_SPACE_SIZE), USIZE_BITS) \/ size > 4
    THEN "reject"
    ELSE "pass"

\* read_config: the caller's buffer after the call, or when it panicked.
read_config(cfg, offset, buf, overflow_checks) ==
    IF access_check(offset, Len(buf), overflow_checks) # "pass" THEN buf
    ELSE PciConfig_read(cfg, offset, buf)

\* write_config, the register part: the configuration model after the call,
\* or when it panicked.
write_config_regs(cfg, offset, data, overflow_checks) ==
    IF access_check(offset, Len(data), overflow_checks) # "pass" THEN cfg
    ELSE PciConfig_write(cfg, offset, data)

\* write_config: does the written range call for update_bar_mapping?
touches_bars(offset, end) ==
    \/ ranges_overlap(offset, end, ToWord(COMMAND), ToWord(COMMAND + 1))
    \/ ranges_overlap(offset, end, ToWord(BAR_0), ToWord(BAR_0 + REG_SIZE * 2))

\* touches_windows without the bridge I/O window registers.
touches_windows_without_io_base(offset, end) ==
    \/ ranges_overlap(offset, end, ToWord(COMMAND), ToWord(COMMAND + 1))
    \/ ranges_overlap(offset, end, ToWord(MEMORY_BASE), ToWord(MEMORY_BASE + 20))

\* write_config: does the written range call for re-installing the windows?
touches_windows(offset, end) ==
    \/ ranges_overlap(offset, end, ToWord(COMMAND), ToWord(COMMAND + 1))
    \/ ranges_overlap(offset, end, ToWord(IO_BASE), ToWord(IO_BASE + 2))
    \/ ranges_overlap(offset, end, ToWord(MEMORY_BASE), ToWord(MEMORY_BASE + 20))

command_of(cfg) == le_read_u16(cfg.config, COMMAND)

io_enabled(cfg) == BitAnd(command_of(cfg), COMMAND_IO_SPACE) # 0

mem_enabled(cfg) == BitAnd(command_of(cfg), COMMAND_MEMORY_SPACE) # 0

(***************************************************************************)
(* Migration state: RootPortState is repr(C), so its bytes are the fields  *)
(* in declaration order, the u16 fields in the byte order of the host      *)
(* (little-endian on both supported architectures).  A byte vector is its  *)
(* length and its non-zero bytes.                                          *)
(***************************************************************************)
RootPortState_size == 3 * PCIE_CONFIG_SPACE_SIZE + 3 * U16_SIZE

bytes_empty == [len |-> 0, nz |-> ZeroSpace]

bytes_of_array(a, n) == [len |-> n, nz |-> a]

bytes_of_u16(v) ==
    [len |-> U16_SIZE, nz |-> Put(Put(ZeroSpace, 0, v % 256), 1, (v \div 256) % 256)]

bytes_concat(a, b) ==
    [len |-> a.len + b.len,
     nz  |-> [i \in DOMAIN a.nz \cup {j + a.len : j \in DOMAIN b.nz} |->
                 IF i < a.len THEN a.nz[i] ELSE b.nz[i - a.len]]]

\* bytes[from .. from + n), indexed from 0
bytes_slice(b, from, n) ==
    LET keep == {j \in DOMAIN b.nz : from <= j /\ j < from + n /\ j < b.len}
    IN  [i \in {j - from : j \in keep} |-> b.nz[i + from]]

u16_at(b, at) == le_read_u16(bytes_slice(b, at, U16_SIZE), 0)

\* ByteCode::from_bytes: only a slice of exactly the structure's size decodes.
from_bytes_ok(b) == b.len = RootPortState_size

\* get_state_vec with last_ext_cap_end laid out before last_ext_cap_offset.
get_state_vec_end_first(cfg) ==
    bytes_concat(bytes_concat(bytes_concat(bytes_concat(bytes_concat(
        bytes_of_array(cfg.config, PCIE_CONFIG_SPACE_SIZE),
        bytes_of_array(cfg.write_mask, PCIE_CONFIG_SPACE_SIZE)),
        bytes_of_array(cfg.write_clear_mask, PCIE_CONFIG_SPACE_SIZE)),
        bytes_of_u16(cfg.last_cap_end)),
        bytes_of_u16(cfg.last_ext_cap_end)),
        bytes_of_u16(cfg.last_ext_cap_offset))

get_state_vec(cfg) ==
    bytes_concat(bytes_concat(bytes_concat(bytes_concat(bytes_concat(
        bytes_of_array(cfg.config, PCIE_CONFIG_SPACE_SIZE),
        bytes_of_array(cfg.write_mask, PCIE_CONFIG_SPACE_SIZE)),
        bytes_of_array(cfg.write_clear_mask, PCIE_CONFIG_SPACE_SIZE)),
        bytes_of_u16(cfg.last_cap_end)),
        bytes_of_u16(cfg.last_ext_cap_offset)),
        bytes_of_u16(cfg.last_ext_cap_end))

\* set_state_mut taking the last two u16 fields in the order get_state_vec
\* assigns them instead of the order the structure declares them.
set_state_mut_swapped(cfg, b) ==
    IF ~from_bytes_ok(b) THEN cfg
    ELSE [config              |-> bytes_slice(b, 0, PCIE_CONFIG_SPACE_SIZE),
          write_mask          |-> bytes_slice(b, PCIE_CONFIG_SPACE_SIZE,
                                              PCIE_CONFIG_SPACE_SIZE),
          write_clear_mask    |-> bytes_slice(b, 2 * PCIE_CONFIG_SPACE_SIZE,
                                              PCIE_CONFIG_SPACE_SIZE),
          last_cap_end        |-> u16_at(b, 3 * PCIE_CONFIG_SPACE_SIZE),
          last_ext_cap_end    |-> u16_at(b, 3 * PCIE_CONFIG_SPACE_SIZE + U16_SIZE),
          last_ext_cap_offset |-> u16_at(b, 3 * PCIE_CONFIG_SPACE_SIZE + 2 * U16_SIZE)]

\* set_state_mut that forgets to restore write_clear_mask.
set_state_mut_keeps_clear_mask(cfg, b) ==
    IF ~from_bytes_ok(b) THEN cfg
    ELSE [config              |-> bytes_slice(b, 0, PCIE_CONFIG_SPACE_SIZE),
          write_mask          |-> bytes_slice(b, PCIE_CONFIG_SPACE_SIZE,
                                              PCIE_CONFIG_SPACE_SIZE),
          write_clear_mask    |-> cfg.write_clear_mask,
          last_cap_end        |-> u16_at(b, 3 * PCIE_CONFIG_SPACE_SIZE),
          last_ext_cap_offset |-> u16_at(b, 3 * PCIE_CONFIG_SPACE_SIZE + U16_SIZE),
          last_ext_cap_end    |-> u16_at(b, 3 * PCIE_CONFIG_SPACE_SIZE + 2 * U16_SIZE)]

\* set_state_mut: the configuration model after the call.
set_state_mut(cfg, b) ==
    IF ~from_bytes_ok(b) THEN cfg
    ELSE [config              |-> bytes_slice(b, 0, PCIE_CONFIG_SPACE_SIZE),
          write_mask          |-> bytes_slice(b, PCIE_CONFIG_SPACE_SIZE,
                                              PCIE_CONFIG_SPACE_SIZE),
          write_clear_mask    |-> bytes_slice(b, 2 * PCIE_CONFIG_SPACE_SIZE,
                                              PCIE_CONFIG_SPACE_SIZE),
          last_cap_end        |-> u16_at(b, 3 * PCIE_CONFIG_SPACE_SIZE),
          last_ext_cap_offset |-> u16_at(b, 3 * PCIE_CONFIG_SPACE_SIZE + U16_SIZE),
          last_ext_cap_end    |-> u16_at(b, 3 * PCIE_CONFIG_SPACE_SIZE + 2 * U16_SIZE)]

(***************************************************************************)
(* The parent bus' device map: a slot (devfn) is vacant or holds a device, *)
(* a root port or another function of the machine.                         *)
(***************************************************************************)
DevFns == {8, 16}
Vacant == << >>
PortDev(p) == <<"port", p>>
OtherDev(fn) == <<"other", fn>>

(***************************************************************************)
(* Mutexes and threads.  The parent bus, each secondary bus and each       *)
(* device sit behind an Arc<Mutex<..>>; a mutex is named by the object it  *)
(* guards.  Thread p (a port number) runs realize of port p, thread Guest  *)
(* dispatches guest configuration accesses.                                *)
(***************************************************************************)
ParentBus == <<"bus", 0>>
SecBus(p) == <<"sec", p>>
Locks == {ParentBus} \cup {SecBus(p) : p \in Ports} \cup {PortDev(p) : p \in Ports}
             \cup {OtherDev(fn) : fn \in DevFns}
Free == -1
Guest == 0
Threads == {Guest} \cup Ports

(***************************************************************************)
(* State.                                                                  *)
(***************************************************************************)
VARIABLES
    port_state,     \* per port: "absent", "constructed", "realized", "dropped",
                    \* or "poisoned" (a call on it panicked)
    devfn,          \* per port: RootPort.devfn
    config,         \* per port: RootPort.config (the PciConfig)
    parent_bridge,  \* per port: sec_bus.parent_bridge is Some (of a dropped
                    \* device: as it was when the device was dropped)
    devices,        \* parent bus: devfn -> device
    child_buses,    \* parent bus: secondary buses, by owning port
    io_region,      \* parent bus: subregions of its I/O container
    mem_region,     \* parent bus: subregions of its Memory container
    registry,       \* migration manager: registered instances, in order
    last,           \* the realize that ended last or the call that panicked
                    \* last (and in SpecNum the helper call): operation,
                    \* arguments and outcome
    pc,             \* per thread: the statement it is at
    holder,         \* per mutex: the thread holding it, or Free
    call,           \* the guest thread's call in progress: operation,
                    \* arguments and, once its body has run, what it returns
    parent_alive,   \* the parent bus still has an owner (parent_bus.upgrade()
                    \* is Some)
    overflow_checks \* the build: arithmetic overflow panics (debug) or wraps

vars == <<port_state, devfn, config, parent_bridge, devices, child_buses,
          io_region, mem_region, registry, last, pc, holder, call,
          parent_alive, overflow_checks>>

lockvars == <<pc, holder, call>>

busvars == <<devices, child_buses, io_region, mem_region>>

envvars == <<parent_alive, overflow_checks>>

EmptyBus == [devices |-> [fn \in DevFns |-> Vacant], child_buses |-> << >>,
             io_region |-> << >>, mem_region |-> << >>]

NoCall ==
    [op |-> "none", port |-> 0, offset |-> {}, data |-> << >>, result |-> "none",
     named |-> Vacant, buf_in |-> << >>, buf_out |-> << >>,
     bar_update |-> "none", io_install |-> "none", mem_install |-> "none",
     src |-> "none", len |-> 0, bytes |-> bytes_empty,
     args |-> << >>, value |-> {}, overflow_checks |-> FALSE]

\* No thread is inside an operation and every mutex is free.
NoThreads ==
    /\ pc = [t \in Threads |-> IF t = Guest THEN "idle" ELSE "start"]
    /\ holder = [L \in Locks |-> Free]
    /\ call = NoCall

(***************************************************************************)
(* Inputs.                                                                 *)
(***************************************************************************)
DataBytes == {0, 1, 255}
Datas == UNION {[1..n -> {b}] : n \in 0..MaxDataLen, b \in DataBytes}
CommandBytes == {0, COMMAND_IO_SPACE, COMMAND_MEMORY_SPACE, 255}
ReadBuf(n) == [i \in 1..n |-> 1]

read_call(offset, n) ==
    [NoCall EXCEPT !.op = "read_config", !.offset = offset, !.len = n,
                   !.buf_in = ReadBuf(n), !.buf_out = ReadBuf(n)]

write_call(offset, data) ==
    [NoCall EXCEPT !.op = "write_config", !.offset = offset, !.data = data,
                   !.len = Len(data)]

\* Offsets used to exercise the access rules on one realized port: COMMAND,
\* the last bytes of the space, its end, and the last offsets a usize holds.
AccessOffsets ==
    {ToWord(COMMAND), ToWord(PCIE_CONFIG_SPACE_SIZE - 4),
     ToWord(PCIE_CONFIG_SPACE_SIZE - 1), ToWord(PCIE_CONFIG_SPACE_SIZE),
     USIZE_MAX \ {0, 1}, USIZE_MAX}

Sources == {"self", "image", "short", "long", "empty"}

\* The accesses made on one realized port: reads and writes at
\* AccessOffsets.
AccessCalls ==
    {read_call(offset, n) : offset \in AccessOffsets, n \in 0..MaxDataLen}
    \cup {write_call(offset, data) : offset \in AccessOffsets, data \in Datas}

\* Guest writes used to exercise the window logic on the bus: one byte at
\* each of the registers write_config looks at and at the high byte of
\* COMMAND, a write of no bytes at COMMAND and inside each window register
\* range, and one rejected write.
WindowCalls ==
    {write_call(ToWord(COMMAND), <<b>>) : b \in CommandBytes}
    \cup {write_call(ToWord(o), <<255>>) :
            o \in {COMMAND + 1, BAR_0, IO_BASE, MEMORY_BASE}}
    \cup {write_call(ToWord(o), << >>) :
            o \in {COMMAND, IO_LIMIT, MEMORY_BASE + 1, PREF_MEMORY_LIMIT + 2}}
    \cup {write_call(ToWord(COMMAND), [i \in 1..MaxDataLen |-> 255])}

\* The guest calls used with the realizing threads: COMMAND with each
\* enable-bit combination, a window register, a rejected write, and a read.
LockCalls ==
    {write_call(ToWord(COMMAND), <<b>>) : b \in CommandBytes}
    \cup {write_call(ToWord(IO_BASE), <<255>>),
          write_call(ToWord(COMMAND), [i \in 1..MaxDataLen |-> 255]),
          read_call(ToWord(COMMAND), 2)}

\* A state image whose registers, masks and offsets differ from what
\* realize installs.
ImageConfig ==
    [config              |-> Put(Put(Put(ZeroSpace, COMMAND, 3), STATUS + 1, 255),
                                 PCIE_CONFIG_SPACE_SIZE - 1, 170),
     write_mask          |-> Put(Put(ZeroSpace, COMMAND, 255),
                                 PCIE_CONFIG_SPACE_SIZE - 1, 255),
     write_clear_mask    |-> Put(ZeroSpace, STATUS + 1, 249),
     last_cap_end        |-> 200,
     last_ext_cap_offset |-> 300,
     last_ext_cap_end    |-> 400]

StateInput(p, src) ==
    CASE src = "self"  -> get_state_vec(config[p])
      [] src = "image" -> get_state_vec(ImageConfig)
      [] src = "short" -> LET b == get_state_vec(config[p]) IN
                          [len |-> b.len - 1, nz |-> bytes_slice(b, 0, b.len - 1)]
      [] src = "long"  -> bytes_concat(get_state_vec(config[p]), bytes_of_u16(0))
      [] src = "empty" -> bytes_empty

(***************************************************************************)
(* Operations, statement by statement: one step per mutex acquisition and  *)
(* one per stretch of code between two acquisitions.  Thread p runs        *)
(* realize of port p; the guest thread makes the calls on realized         *)
(* devices, and holds the device's mutex around each call as the unit      *)
(* tests and the bus dispatch do.  A step that acquires a mutex waits      *)
(* until it is free.                                                       *)
(***************************************************************************)
Held(t) == {L \in Locks : holder[L] = t}
Acquire(t, L) == [holder EXCEPT ![L] = t]
Release(t, L) == [holder EXCEPT ![L] = Free]
ReleaseAll(t) == [L \in Locks |-> IF holder[L] = t THEN Free ELSE holder[L]]
Goto(t, label) == [pc EXCEPT ![t] = label]

\* The mutex the thread is about to acquire, or none.
Wanted(t) ==
    IF t = Guest
    THEN CASE pc[t] = "lock_dev" -> {PortDev(call.port)}
           [] pc[t] \in {"io_lock_parent", "mem_lock_parent"} -> {ParentBus}
           [] OTHER -> {}
    ELSE CASE pc[t] = "start" /\ port_state[t] = "constructed" -> {ParentBus}
           [] pc[t] \in {"io_lock_sec", "mem_lock_sec", "bridge_lock_sec"} -> {SecBus(t)}
           [] pc[t] = "lock_dev" -> {PortDev(t)}
           [] pc[t] = "name_lock" -> {devices[devfn[t]]}
           [] OTHER -> {}

\* RootPort::new(name, devfn, port_num, parent_bus, false)
New(p, fn) ==
    /\ port_state[p] = "absent"
    /\ port_state' = [port_state EXCEPT ![p] = "constructed"]
    /\ devfn' = [devfn EXCEPT ![p] = fn]
    /\ config' = [config EXCEPT ![p] = RootPort_new]
    /\ UNCHANGED <<parent_bridge, busvars, registry, last, lockvars, envvars>>

\* Another function of the machine (not a root port) takes a slot of the
\* bus, under the bus' mutex.
AttachOther(fn) ==
    /\ holder[ParentBus] = Free
    /\ devices[fn] = Vacant
    /\ devices' = [devices EXCEPT ![fn] = OtherDev(fn)]
    /\ UNCHANGED <<port_state, devfn, config, parent_bridge, child_buses,
                   io_region, mem_region, registry, last, lockvars, envvars>>

\* The owner of the parent bus lets go of it.  A realized root port lives
\* on: the migration registry holds it (line 173), and so may a caller that
\* looked it up before; its parent_bus no longer resolves.
DropParent ==
    /\ parent_alive
    /\ holder[ParentBus] = Free
    /\ parent_alive' = FALSE
    /\ UNCHANGED <<port_state, devfn, config, parent_bridge, busvars, registry,
                   last, lockvars, overflow_checks>>

\* realize returns an error or panics: the guards and the device are dropped.
RealizeFails(p, result, named) ==
    /\ port_state' = [port_state EXCEPT ![p] = "dropped"]
    /\ config' = [config EXCEPT ![p] = PciConfig_new]
    /\ holder' = ReleaseAll(p)
    /\ pc' = Goto(p, "done")
    /\ last' = [NoCall EXCEPT !.op = "realize", !.port = p, !.result = result,
                              !.named = named]

\* lines 117-140: the masks and capabilities, then
\* parent_bus.upgrade().unwrap() and .lock()
RealizeLockParent(p) ==
    /\ pc[p] = "start"
    /\ port_state[p] = "constructed"
    /\ IF parent_alive
       THEN /\ holder[ParentBus] = Free
            /\ holder' = Acquire(p, ParentBus)
            /\ config' = [config EXCEPT ![p] = realize_config(@)]
            /\ pc' = Goto(p, "io_lock_sec")
            /\ UNCHANGED <<port_state, last>>
       ELSE RealizeFails(p, "panic", Vacant)
    /\ UNCHANGED <<devfn, parent_bridge, busvars, registry, call, envvars>>

\* line 144: self.sec_bus.lock()
RealizeIoLockSec(p) ==
    /\ pc[p] = "io_lock_sec"
    /\ holder[SecBus(p)] = Free
    /\ holder' = Acquire(p, SecBus(p))
    /\ pc' = Goto(p, "io_add")
    /\ UNCHANGED <<port_state, devfn, config, parent_bridge, busvars, registry,
                   last, call, envvars>>

\* lines 142-145: io_region.add_subregion(.., 0)?
RealizeIoAdd(p) ==
    /\ pc[p] = "io_add"
    /\ LET io == add_subregion(io_region, IoRegion(p), ToWord(0), IO_REGION_SIZE) IN
        IF io.ok
        THEN /\ io_region' = io.subregions
             /\ holder' = Release(p, SecBus(p))
             /\ pc' = Goto(p, "mem_lock_sec")
             /\ UNCHANGED <<port_state, config, last>>
        ELSE /\ RealizeFails(p, "io_overlap", Vacant)
             /\ UNCHANGED io_region
    /\ UNCHANGED <<devfn, parent_bridge, devices, child_buses, mem_region,
                   registry, call, envvars>>

\* line 148: self.sec_bus.lock()
RealizeMemLockSec(p) ==
    /\ pc[p] = "mem_lock_sec"
    /\ holder[SecBus(p)] = Free
    /\ holder' = Acquire(p, SecBus(p))
    /\ pc' = Goto(p, "mem_add")
    /\ UNCHANGED <<port_state, devfn, config, parent_bridge, busvars, registry,
                   last, call, envvars>>

\* lines 146-149: mem_region.add_subregion(.., 0)?
RealizeMemAdd(p) ==
    /\ pc[p] = "mem_add"
    /\ LET mem == add_subregion(mem_region, MemRegion(p), ToWord(0),
                                MEM_REGION_SIZE) IN
        IF mem.ok
        THEN /\ mem_region' = mem.subregions
             /\ holder' = Release(p, SecBus(p))
             /\ pc' = Goto(p, "lock_dev")
             /\ UNCHANGED <<port_state, config, last>>
        ELSE /\ RealizeFails(p, "mem_overlap", Vacant)
             /\ UNCHANGED mem_region
    /\ UNCHANGED <<devfn, parent_bridge, devices, child_buses, io_region,
                   registry, call, envvars>>

\* lines 151-153: root_port.lock()
RealizeLockDev(p) ==
    /\ pc[p] = "lock_dev"
    /\ holder[PortDev(p)] = Free
    /\ holder' = Acquire(p, PortDev(p))
    /\ pc' = Goto(p, "bridge_lock_sec")
    /\ UNCHANGED <<port_state, devfn, config, parent_bridge, busvars, registry,
                   last, call, envvars>>

\* line 154: locked_root_port.sec_bus.lock()
RealizeBridgeLockSec(p) ==
    /\ pc[p] = "bridge_lock_sec"
    /\ holder[SecBus(p)] = Free
    /\ holder' = Acquire(p, SecBus(p))
    /\ pc' = Goto(p, "bridge_set")
    /\ UNCHANGED <<port_state, devfn, config, parent_bridge, busvars, registry,
                   last, call, envvars>>

\* lines 154-155: .parent_bridge = Some(weak)
RealizeBridgeSet(p) ==
    /\ pc[p] = "bridge_set"
    /\ parent_bridge' = [parent_bridge EXCEPT ![p] = TRUE]
    /\ holder' = Release(p, SecBus(p))
    /\ pc' = Goto(p, "devfn_check")
    /\ UNCHANGED <<port_state, devfn, config, busvars, registry, last, call,
                   envvars>>

\* lines 156-164: devices.get(&devfn), and on a free slot push and insert
RealizeDevfnCheck(p) ==
    /\ pc[p] = "devfn_check"
    /\ IF devices[devfn[p]] = Vacant
       THEN /\ child_buses' = Append(child_buses, p)
            /\ devices' = [devices EXCEPT ![devfn[p]] = PortDev(p)]
            /\ pc' = Goto(p, "drop_dev")
       ELSE /\ pc' = Goto(p, "name_lock")
            /\ UNCHANGED <<child_buses, devices>>
    /\ UNCHANGED <<port_state, devfn, config, parent_bridge, io_region, mem_region,
                   registry, last, holder, call, envvars>>

\* line 168: pci_device.unwrap().lock()
RealizeNameLock(p) ==
    /\ pc[p] = "name_lock"
    /\ holder[devices[devfn[p]]] = Free
    /\ holder' = Acquire(p, devices[devfn[p]])
    /\ pc' = Goto(p, "bail")
    /\ UNCHANGED <<port_state, devfn, config, parent_bridge, busvars, registry,
                   last, call, envvars>>

\* The bail as it would be if the device had been handed to the migration
\* manager before the devfn check.
RealizeBailRegistered(p) ==
    /\ pc[p] = "bail"
    /\ RealizeFails(p, "conflict", devices[devfn[p]])
    /\ registry' = Append(registry, p)
    /\ UNCHANGED <<devfn, parent_bridge, busvars, call, envvars>>

\* lines 165-169: bail!("Devfn {:?} has been used by {:?}", ..)
RealizeBail(p) ==
    /\ pc[p] = "bail"
    /\ RealizeFails(p, "conflict", devices[devfn[p]])
    /\ UNCHANGED <<devfn, parent_bridge, busvars, registry, call, envvars>>

\* realize as it would be without the drop of line 172: the guard lives on
\* to the end of the function.
RealizeKeepDev(p) ==
    /\ pc[p] = "drop_dev"
    /\ pc' = Goto(p, "register")
    /\ UNCHANGED <<port_state, devfn, config, parent_bridge, busvars, registry,
                   last, holder, call, envvars>>

\* line 172: drop(locked_root_port)
RealizeDropDev(p) ==
    /\ pc[p] = "drop_dev"
    /\ holder' = Release(p, PortDev(p))
    /\ pc' = Goto(p, "register")
    /\ UNCHANGED <<port_state, devfn, config, parent_bridge, busvars, registry,
                   last, call, envvars>>

\* line 173: MigrationManager::register_device_instance_mutex(.., root_port)
RealizeRegister(p) ==
    /\ pc[p] = "register"
    /\ registry' = Append(registry, p)
    /\ pc' = Goto(p, "return")
    /\ UNCHANGED <<port_state, devfn, config, parent_bridge, busvars, last,
                   holder, call, envvars>>

\* lines 175-176: Ok(()), where locked_parent_bus goes out of scope
RealizeReturn(p) ==
    /\ pc[p] = "return"
    /\ port_state' = [port_state EXCEPT ![p] = "realized"]
    /\ holder' = ReleaseAll(p)
    /\ pc' = Goto(p, "done")
    /\ last' = [NoCall EXCEPT !.op = "realize", !.port = p, !.result = "ok"]
    /\ UNCHANGED <<devfn, config, parent_bridge, busvars, registry, call, envvars>>

\* the caller looks the device up (tests, lines 316 and 330)
GuestBegin(q) ==
    /\ pc[Guest] = "idle"
    /\ port_state[q] = "realized"
    /\ call' = [NoCall EXCEPT !.port = q]
    /\ pc' = Goto(Guest, "lock_dev")
    /\ UNCHANGED <<port_state, devfn, config, parent_bridge, busvars, registry,
                   last, holder, envvars>>

\* root_port.lock() by the caller (tests, lines 317-318, 333-334)
GuestLockDev ==
    /\ pc[Guest] = "lock_dev"
    /\ holder[PortDev(call.port)] = Free
    /\ holder' = Acquire(Guest, PortDev(call.port))
    /\ pc' = Goto(Guest, "body")
    /\ UNCHANGED <<port_state, devfn, config, parent_bridge, busvars, registry,
                   last, call, envvars>>

\* The body of the call has run and c is the call with what it returns.
GuestReturns(c) ==
    /\ call' = c
    /\ pc' = Goto(Guest, "finish")
    /\ UNCHANGED <<port_state, last, holder>>

\* The call c panics: the thread unwinds, its guards are dropped and the
\* device's mutex, held by the caller, is poisoned.
GuestPanics(c) ==
    /\ last' = [c EXCEPT !.result = "panic"]
    /\ call' = NoCall
    /\ holder' = ReleaseAll(Guest)
    /\ pc' = Goto(Guest, "idle")
    /\ port_state' = [port_state EXCEPT ![c.port] = "poisoned"]

\* lines 178-189: read_config(a.offset, &mut buf) with buf = a.buf_in
GuestRead(a) ==
    /\ pc[Guest] = "body"
    /\ a.op = "read_config"
    /\ LET c == [a EXCEPT !.port = call.port]
           chk == access_check(c.offset, c.len, overflow_checks)
       IN
        IF chk = "panic" THEN GuestPanics(c)
        ELSE GuestReturns([c EXCEPT
                 !.buf_out = read_config(config[c.port], c.offset, c.buf_in,
                                         overflow_checks),
                 !.result = IF chk = "reject" THEN "rejected" ELSE "ok"])
    /\ UNCHANGED <<devfn, config, parent_bridge, busvars, registry, envvars>>

\* lines 191-223: write_config(a.offset, &a.data) up to the re-read of
\* COMMAND: the guard, config.write and update_bar_mapping; bar is what
\* update_bar_mapping returns if it is called
GuestWriteRegs(a, bar) ==
    /\ pc[Guest] = "body"
    /\ a.op = "write_config"
    /\ LET c == [a EXCEPT !.port = call.port]
           chk == access_check(c.offset, c.len, overflow_checks)
           end == access_end(c.offset, c.len).bits
           cfg == write_config_regs(config[c.port], c.offset, c.data,
                                    overflow_checks)
           wanted == chk = "pass" /\ touches_windows(c.offset, end)
       IN
        IF chk = "panic"
        THEN GuestPanics(c) /\ UNCHANGED config
        ELSE /\ config' = [config EXCEPT ![c.port] = cfg]
             /\ call' = [c EXCEPT
                    !.result = IF chk = "reject" THEN "rejected" ELSE "ok",
                    !.bar_update =
                        IF chk = "pass" /\ touches_bars(c.offset, end)
                        THEN PciConfig_update_bar_mapping(cfg, bar) ELSE "none"]
             /\ pc' = Goto(Guest,
                           IF wanted /\ io_enabled(cfg) THEN "io_lock_parent"
                           ELSE IF wanted /\ mem_enabled(cfg) THEN "mem_lock_parent"
                           ELSE "finish")
             /\ UNCHANGED <<port_state, last, holder>>
    /\ UNCHANGED <<devfn, parent_bridge, busvars, registry, envvars>>

\* lines 226-231: self.parent_bus.upgrade().unwrap().lock(); without a
\* parent bus the unwrap panics
GuestIoLockParent ==
    /\ pc[Guest] = "io_lock_parent"
    /\ IF parent_alive
       THEN /\ holder[ParentBus] = Free
            /\ holder' = Acquire(Guest, ParentBus)
            /\ pc' = Goto(Guest, "io_install")
            /\ UNCHANGED <<port_state, last, call>>
       ELSE GuestPanics(call)
    /\ UNCHANGED <<devfn, config, parent_bridge, busvars, registry, envvars>>

\* lines 232-238: io_region.add_subregion(self.io_region.clone(), 0), and the
\* guard of the parent bus, a temporary, is dropped
GuestIoInstall ==
    /\ pc[Guest] = "io_install"
    /\ LET io == add_subregion(io_region, IoRegion(call.port), ToWord(0),
                               IO_REGION_SIZE) IN
        /\ io_region' = io.subregions
        /\ call' = [call EXCEPT !.io_install = IF io.ok THEN "ok" ELSE "overlap"]
    /\ holder' = Release(Guest, ParentBus)
    /\ pc' = Goto(Guest, IF mem_enabled(config[call.port]) THEN "mem_lock_parent"
                         ELSE "finish")
    /\ UNCHANGED <<port_state, devfn, config, parent_bridge, devices, child_buses,
                   mem_region, registry, last, envvars>>

\* lines 239-245: self.parent_bus.upgrade().unwrap().lock()
GuestMemLockParent ==
    /\ pc[Guest] = "mem_lock_parent"
    /\ IF parent_alive
       THEN /\ holder[ParentBus] = Free
            /\ holder' = Acquire(Guest, ParentBus)
            /\ pc' = Goto(Guest, "mem_install")
            /\ UNCHANGED <<port_state, last, call>>
       ELSE GuestPanics(call)
    /\ UNCHANGED <<devfn, config, parent_bridge, busvars, registry, envvars>>

\* lines 246-251: mem_region.add_subregion(self.mem_region.clone(), 0)
GuestMemInstall ==
    /\ pc[Guest] = "mem_install"
    /\ LET mem == add_subregion(mem_region, MemRegion(call.port), ToWord(0),
                                MEM_REGION_SIZE) IN
        /\ mem_region' = mem.subregions
        /\ call' = [call EXCEPT !.mem_install = IF mem.ok THEN "ok" ELSE "overlap"]
    /\ holder' = Release(Guest, ParentBus)
    /\ pc' = Goto(Guest, "finish")
    /\ UNCHANGED <<port_state, devfn, config, parent_bridge, devices, child_buses,
                   io_region, registry, last, envvars>>

\* the call returns (line 254 of write_config) and its caller drops the
\* device's guard
GuestFinish ==
    /\ pc[Guest] = "finish"
    /\ call' = NoCall
    /\ holder' = ReleaseAll(Guest)
    /\ pc' = Goto(Guest, "idle")
    /\ UNCHANGED <<port_state, devfn, config, parent_bridge, busvars, registry,
                   last, envvars>>

\* lines 106-109: init_write_mask
GuestInitWriteMask ==
    /\ pc[Guest] = "body"
    /\ config' = [config EXCEPT ![call.port] =
                      init_bridge_write_mask(init_common_write_mask(@))]
    /\ GuestReturns([call EXCEPT !.op = "init_write_mask", !.result = "ok"])
    /\ UNCHANGED <<devfn, parent_bridge, busvars, registry, envvars>>

\* lines 111-114: init_write_clear_mask
GuestInitWriteClearMask ==
    /\ pc[Guest] = "body"
    /\ config' = [config EXCEPT ![call.port] =
                      init_bridge_write_clear_mask(init_common_write_clear_mask(@))]
    /\ GuestReturns([call EXCEPT !.op = "init_write_clear_mask", !.result = "ok"])
    /\ UNCHANGED <<devfn, parent_bridge, busvars, registry, envvars>>

\* lines 262-275: get_state_vec
GuestGetStateVec ==
    /\ pc[Guest] = "body"
    /\ GuestReturns([call EXCEPT !.op = "get_state_vec", !.result = "ok",
                                 !.len = get_state_vec(config[call.port]).len,
                                 !.bytes = get_state_vec(config[call.port])])
    /\ UNCHANGED <<devfn, config, parent_bridge, busvars, registry, envvars>>

\* set_state_mut as it would be if the restore brought the forwarded windows
\* in line with the restored enable bits: a window whose bit is clear is
\* taken out of the parent's container.
GuestSetStateMutSyncsWindows(src) ==
    /\ pc[Guest] = "body"
    /\ LET b == StateInput(call.port, src)
           cfg == set_state_mut(config[call.port], b)
       IN
        /\ config' = [config EXCEPT ![call.port] = cfg]
        /\ io_region' = IF from_bytes_ok(b) /\ ~io_enabled(cfg)
                         THEN SelectSeq(io_region,
                                        LAMBDA e : e.region # IoRegion(call.port))
                         ELSE io_region
        /\ mem_region' = IF from_bytes_ok(b) /\ ~mem_enabled(cfg)
                          THEN SelectSeq(mem_region,
                                         LAMBDA e : e.region # MemRegion(call.port))
                          ELSE mem_region
        /\ GuestReturns([call EXCEPT !.op = "set_state_mut", !.src = src,
                            !.len = b.len,
                            !.result = IF from_bytes_ok(b) THEN "ok"
                                       ELSE "from_bytes_error"])
    /\ UNCHANGED <<devfn, parent_bridge, devices, child_buses, registry, envvars>>

\* lines 277-290: set_state_mut(&bytes), the bytes being StateInput(.., src)
GuestSetStateMut(src) ==
    /\ pc[Guest] = "body"
    /\ LET b == StateInput(call.port, src) IN
        /\ config' = [config EXCEPT ![call.port] = set_state_mut(@, b)]
        /\ GuestReturns([call EXCEPT !.op = "set_state_mut", !.src = src,
                            !.len = b.len,
                            !.result = IF from_bytes_ok(b) THEN "ok"
                                       ELSE "from_bytes_error"])
    /\ UNCHANGED <<devfn, parent_bridge, busvars, registry, envvars>>

\* The steps of realize, and those of a write_config out of calls with its
\* caller's.
RealizeSteps ==
    \/ \E p \in Ports : RealizeLockParent(p)
    \/ \E p \in Ports : RealizeIoLockSec(p)
    \/ \E p \in Ports : RealizeIoAdd(p)
    \/ \E p \in Ports : RealizeMemLockSec(p)
    \/ \E p \in Ports : RealizeMemAdd(p)
    \/ \E p \in Ports : RealizeLockDev(p)
    \/ \E p \in Ports : RealizeBridgeLockSec(p)
    \/ \E p \in Ports : RealizeBridgeSet(p)
    \/ \E p \in Ports : RealizeDevfnCheck(p)
    \/ \E p \in Ports : RealizeNameLock(p)
    \/ \E p \in Ports : RealizeBail(p)
    \/ \E p \in Ports : RealizeDropDev(p)
    \/ \E p \in Ports : RealizeRegister(p)
    \/ \E p \in Ports : RealizeReturn(p)

WriteSteps(calls) ==
    \/ \E q \in Ports : GuestBegin(q)
    \/ GuestLockDev
    \/ \E a \in calls, bar \in BarOutcomes : GuestWriteRegs(a, bar)
    \/ GuestIoLockParent
    \/ GuestIoInstall
    \/ GuestMemLockParent
    \/ GuestMemInstall
    \/ GuestFinish

(***************************************************************************)
(* Spec: root ports and other functions come onto one parent bus, and the  *)
(* guest writes the registers that drive the forwarded windows of the      *)
(* realized ones.                                                          *)
(***************************************************************************)
Init ==
    /\ port_state = [p \in Ports |-> "absent"]
    /\ devfn = [p \in Ports |-> 0]
    /\ config = [p \in Ports |-> PciConfig_new]
    /\ parent_bridge = [p \in Ports |-> FALSE]
    /\ devices = EmptyBus.devices
    /\ child_buses = << >>
    /\ io_region = << >>
    /\ mem_region = << >>
    /\ registry = << >>
    /\ last = NoCall
    /\ NoThreads
    /\ parent_alive = TRUE
    /\ overflow_checks \in BOOLEAN

Next ==
    \/ \E p \in Ports, fn \in DevFns : New(p, fn)
    \/ \E fn \in DevFns : AttachOther(fn)
    \/ RealizeSteps
    \/ WriteSteps(WindowCalls)

Spec == Init /\ [][Next]_vars

(***************************************************************************)
(* SpecAccess: one root port, realized at devfn 8 on an empty bus as the   *)
(* unit tests do, under guest configuration accesses, migration calls and  *)
(* mask initialisations, before and after the parent bus is released by    *)
(* its owner.                                                              *)
(***************************************************************************)
FirstPort == CHOOSE p \in Ports : \A q \in Ports : p <= q
FirstDevFn == CHOOSE fn \in DevFns : \A g \in DevFns : fn <= g

InitAccess ==
    /\ port_state = [p \in Ports |-> IF p = FirstPort THEN "realized" ELSE "absent"]
    /\ devfn = [p \in Ports |-> IF p = FirstPort THEN FirstDevFn ELSE 0]
    /\ config = [p \in Ports |-> IF p = FirstPort THEN realize_config(RootPort_new)
                                 ELSE PciConfig_new]
    /\ parent_bridge = [p \in Ports |-> p = FirstPort]
    /\ devices = [EmptyBus.devices EXCEPT ![FirstDevFn] = PortDev(FirstPort)]
    /\ child_buses = <<FirstPort>>
    /\ io_region = add_subregion(<< >>, IoRegion(FirstPort), ToWord(0),
                                 IO_REGION_SIZE).subregions
    /\ mem_region = add_subregion(<< >>, MemRegion(FirstPort), ToWord(0),
                                  MEM_REGION_SIZE).subregions
    /\ registry = <<FirstPort>>
    /\ last = [NoCall EXCEPT !.op = "realize", !.port = FirstPort, !.result = "ok"]
    /\ NoThreads
    /\ parent_alive = TRUE
    /\ overflow_checks \in BOOLEAN

NextAccess ==
    \/ WriteSteps(AccessCalls)
    \/ \E a \in AccessCalls : GuestRead(a)
    \/ GuestGetStateVec
    \/ \E src \in Sources : GuestSetStateMut(src)
    \/ GuestInitWriteMask
    \/ GuestInitWriteClearMask
    \/ DropParent

SpecAccess == InitAccess /\ [][NextAccess]_vars

(***************************************************************************)
(* SpecLocks: root ports constructed for the slots of a bus that is empty  *)
(* or already carries another function are realized by a thread each,      *)
(* while the guest thread reads and writes the realized ones.  The bus is  *)
(* owned throughout.                                                       *)
(***************************************************************************)
InitLocks ==
    /\ port_state = [p \in Ports |-> "constructed"]
    /\ devfn \in [Ports -> DevFns]
    /\ config = [p \in Ports |-> RootPort_new]
    /\ parent_bridge = [p \in Ports |-> FALSE]
    /\ devices \in {EmptyBus.devices}
                     \cup {[EmptyBus.devices EXCEPT ![fn] = OtherDev(fn)] : fn \in DevFns}
    /\ child_buses = << >>
    /\ io_region = << >>
    /\ mem_region = << >>
    /\ registry = << >>
    /\ last = NoCall
    /\ NoThreads
    /\ parent_alive = TRUE
    /\ overflow_checks \in BOOLEAN

NextLocks ==
    \/ RealizeSteps
    \/ WriteSteps(LockCalls)
    \/ \E a \in LockCalls : GuestRead(a)

SpecLocks == InitLocks /\ [][NextLocks]_vars

(***************************************************************************)
(* SpecNum: the helpers of util::num_ops applied to operands that sit on   *)
(* and around the limits of their types, in both kinds of build.           *)
(***************************************************************************)
Origins ==
    {ToWord(0), ToWord(1), ToWord(1003), ToWord(10001), {32}, {63}, {0, 63},
     U64_MAX \ {0, 1}, U64_MAX \ {0}, U64_MAX}
Aligns ==
    {ToWord(0), ToWord(1), ToWord(2), ToWord(3), ToWord(4), ToWord(100),
     ToWord(4096), {32}, {63}, U64_MAX}
Values32 == {{}, ToWord(65530), ToWord(65535), ToWord(305419896), {31}, U32_MAX}
Values64 == {ToWord(65530), {63}, {16, 17, 40, 63}, U64_MAX}
FieldVals == {{}, ToWord(47802), U32_MAX}
Starts == {ToWord(n) : n \in {0, 1, 8, 16, 31, 32, 33, 63, 64, 65}} \cup {U32_MAX}
Lengths == {ToWord(n) : n \in {0, 1, 8, 16, 31, 32, 33, 64, 65}} \cup {U32_MAX}

Pending(op, args, checks) ==
    [NoCall EXCEPT !.op = op, !.args = args, !.overflow_checks = checks,
                   !.result = "pending"]

\* The calls to make: each helper with each combination of its operands.
Calls ==
    {Pending(op, <<x, a>>, FALSE) :
        op \in {"round_up", "round_down"}, x \in Origins, a \in Aligns}
    \cup {Pending("extract_u32", <<v, start, length>>, checks) :
            v \in Values32, start \in Starts, length \in Lengths,
            checks \in BOOLEAN}
    \cup {Pending("extract_u64", <<v, start, length>>, checks) :
            v \in Values64, start \in Starts, length \in Lengths,
            checks \in BOOLEAN}
    \cup {Pending("deposit_u32", <<v, start, length, f>>, checks) :
            v \in Values32, start \in Starts, length \in Lengths,
            f \in FieldVals, checks \in BOOLEAN}

Returned(c, r) == [c EXCEPT !.result = r.kind, !.value = r.value]

IsPending(op) == last.op = op /\ last.result = "pending"

RoundUp ==
    /\ IsPending("round_up")
    /\ last' = Returned(last, round_up(last.args[1], last.args[2]))
    /\ UNCHANGED <<port_state, devfn, config, parent_bridge, busvars, registry,
                   lockvars, envvars>>

RoundDown ==
    /\ IsPending("round_down")
    /\ last' = Returned(last, round_down(last.args[1], last.args[2]))
    /\ UNCHANGED <<port_state, devfn, config, parent_bridge, busvars, registry,
                   lockvars, envvars>>

ExtractU32 ==
    /\ IsPending("extract_u32")
    /\ last' = Returned(last, extract_u32(last.args[1], last.args[2], last.args[3],
                                          last.overflow_checks))
    /\ UNCHANGED <<port_state, devfn, config, parent_bridge, busvars, registry,
                   lockvars, envvars>>

ExtractU64 ==
    /\ IsPending("extract_u64")
    /\ last' = Returned(last, extract_u64(last.args[1], last.args[2], last.args[3],
                                          last.overflow_checks))
    /\ UNCHANGED <<port_state, devfn, config, parent_bridge, busvars, registry,
                   lockvars, envvars>>

DepositU32 ==
    /\ IsPending("deposit_u32")
    /\ last' = Returned(last, deposit_u32(last.args[1], last.args[2], last.args[3],
                                          last.args[4], last.overflow_checks))
    /\ UNCHANGED <<port_state, devfn, config, parent_bridge, busvars, registry,
                   lockvars, envvars>>

InitNum ==
    /\ port_state = [p \in Ports |-> "absent"]
    /\ devfn = [p \in Ports |-> 0]
    /\ config = [p \in Ports |-> PciConfig_new]
    /\ parent_bridge = [p \in Ports |-> FALSE]
    /\ devices = EmptyBus.devices
    /\ child_buses = << >>
    /\ io_region = << >>
    /\ mem_region = << >>
    /\ registry = << >>
    /\ last \in Calls
    /\ NoThreads
    /\ parent_alive = TRUE
    /\ overflow_checks = last.overflow_checks

NextNum ==
    \/ RoundUp
    \/ RoundDown
    \/ ExtractU32
    \/ ExtractU64
    \/ DepositU32

SpecNum == InitNum /\ [][NextNum]_vars

(***************************************************************************)
(* Claims.  A guest call is looked at where its body runs (the step from   *)
(* "body") and where it has run to its return ("finish", with what it      *)
(* returns in call); a realize where it ends (the step to "done", with its *)
(* outcome in last).                                                       *)
(***************************************************************************)
\* The guest's call as its body left it: call, or last when it panicked.
After == IF pc[Guest] = "idle" THEN last ELSE call

\* This step runs the body of the guest's call, and the call is op.
BodyOf(op) == pc[Guest] = "body" /\ pc'[Guest] # "body" /\ After'.op = op

\* The guest's call op has run to its return.
HasReturned(op) == pc[Guest] = "finish" /\ call.op = op

\* This step ends realize of port p, with its outcome in last'.
RealizeEnds(p) == pc[p] # "done" /\ pc'[p] = "done"

\* offset + len > 4096 or len > 4, in numbers.
CallInvalid(c) ==
    \/ c.len > 4
    \/ Gt(c.offset, ToWord(PCIE_CONFIG_SPACE_SIZE - c.len), USIZE_BITS)

\* The offset of an access inside the space, as a number.
Off(c) == ToInt(c.offset)

\* The access starts inside the space or at its end.
InSpace(c) == ~Gt(c.offset, ToWord(PCIE_CONFIG_SPACE_SIZE), USIZE_BITS)

\* The range offset..offset+len of the access overlaps the bytes from..to-1
\* (the test of ranges_overlap, in numbers: an access of no bytes strictly
\* inside the field counts, one at its first byte does not).
Overlap(c, from, to) ==
    InSpace(c) /\ Off(c) < to /\ from < Off(c) + c.len

\* C1: a write_config whose offset + len exceeds 4096 or whose len exceeds 4
\* is rejected: the call returns without reaching the window code, and it
\* changes no byte of the configuration space (the in-bounds bytes of the
\* access included), neither mask, no capability offset, and neither
\* container of the parent bus.
C1_RejectedWriteChangesNothing ==
    [][(BodyOf("write_config") /\ CallInvalid(After'))
          => /\ After'.result # "panic"
             /\ pc'[Guest] = "finish"
             /\ config' = config
             /\ io_region' = io_region
             /\ mem_region' = mem_region]_vars

\* C2: a read_config whose offset + len exceeds 4096 or whose len exceeds 4
\* returns, leaves every byte of the caller's buffer as it was and changes
\* no state of the device or the bus.
C2_RejectedReadChangesNothing ==
    [][(BodyOf("read_config") /\ CallInvalid(After'))
          => /\ After'.result # "panic"
             /\ After'.buf_out = After'.buf_in
             /\ UNCHANGED <<port_state, devfn, config, parent_bridge, devices,
                            child_buses, io_region, mem_region, registry>>]_vars

\* C3: a valid write (offset + len <= 4096, len <= 4) is accepted, every
\* written byte becomes ((old & ~write_mask) | (data & write_mask)) &
\* ~write_clear_mask, whatever the data, and every other byte of the space
\* is as before.
C3_ValidWriteMasks ==
    [][(BodyOf("write_config") /\ ~CallInvalid(After'))
          => LET c == After'
                 old == config[c.port]
                 new == config'[c.port]
                 lo == Off(c)
                 written == lo..(lo + c.len - 1)
             IN  /\ c.result = "ok"
                 /\ \A i \in written \cup DOMAIN old.config \cup DOMAIN new.config :
                       Get(new.config, i) =
                          IF i \in written
                          THEN BitAnd(
                                 BitOr(BitAnd(Get(old.config, i),
                                              BitNot8(Get(old.write_mask, i))),
                                       BitAnd(c.data[i - lo + 1],
                                              Get(old.write_mask, i))),
                                 BitNot8(Get(old.write_clear_mask, i)))
                          ELSE Get(old.config, i)
                 /\ DOMAIN new.config \subseteq Space]_vars

\* C3 witness: a valid 4-byte write of zeros over COMMAND and STATUS has
\* cleared the write-clear bits of the STATUS high byte (255 -> 6), although
\* no 1 was written to them, and stored the writable COMMAND bits.
C3_Witness ==
    /\ HasReturned("write_config")
    /\ call.offset = ToWord(COMMAND)
    /\ call.data = <<0, 0, 0, 0>>
    /\ Get(config[call.port].write_clear_mask, STATUS + 1) = 249
    /\ Get(config[call.port].config, STATUS + 1) = 6
    /\ Get(config[call.port].config, COMMAND) = 0

IsPort(d) == d # Vacant /\ d[1] = "port"

Regions(container) == {container[i].region : i \in 1..Len(container)}

Count(container, region) ==
    Cardinality({i \in 1..Len(container) : container[i].region = region})

\* C4: the realize of a root port at a devfn that another root port
\* occupies ends with an error naming the occupant and leaves the device map
\* as it was; an installed entry of the device map is never replaced (so
\* each devfn maps to at most one device).
C4_SecondRealizeNamesOccupant ==
    [][/\ \A p \in Ports :
             (/\ RealizeEnds(p)
              /\ IsPort(devices[devfn[p]])
              /\ devices[devfn[p]] # PortDev(p))
                => /\ last'.result = "conflict"
                   /\ last'.named = devices[devfn[p]]
                   /\ devices' = devices
       /\ \A fn \in DevFns : devices[fn] # Vacant => devices'[fn] = devices[fn]]_vars

\* C5: a realize that fails on an occupied devfn leaves nothing of its
\* device where others can see it: the parent's device map and child_buses
\* do not hold it, neither container holds its window (the device map,
\* child_buses and both containers are as before the call), and nothing was
\* registered for migration.
C5_ConflictMutatesNothing ==
    [][\A p \in Ports :
          (RealizeEnds(p) /\ last'.result = "conflict")
             => /\ \A fn \in DevFns : devices'[fn] # PortDev(p)
                /\ \A i \in 1..Len(child_buses') : child_buses'[i] # p
                /\ IoRegion(p) \notin Regions(io_region')
                /\ MemRegion(p) \notin Regions(mem_region')
                /\ \A i \in 1..Len(registry') : registry'[i] # p]_vars

\* C6: window re-mapping is idempotent: no installation attempted by a
\* write_config fails with an overlap, and the parent's containers hold at
\* most one entry per window.
C6_RemapIdempotent ==
    /\ call.io_install # "overlap" /\ call.mem_install # "overlap"
    /\ \A p \in Ports : Count(io_region, IoRegion(p)) <= 1
                        /\ Count(mem_region, MemRegion(p)) <= 1

\* C7: when a valid write_config over COMMAND on a realized port returns, an
\* enable bit that is set means the window is a subregion of the parent's
\* container and that this write installed it without error.
C7_EnableInstallsWindow ==
    (/\ HasReturned("write_config")
     /\ call.result = "ok"
     /\ Overlap(call, COMMAND, COMMAND + 1))
        => /\ io_enabled(config[call.port])
                => /\ IoRegion(call.port) \in Regions(io_region)
                   /\ call.io_install = "ok"
           /\ mem_enabled(config[call.port])
                => /\ MemRegion(call.port) \in Regions(mem_region)
                   /\ call.mem_install = "ok"

\* C8: set_state_mut(get_state_vec()) on any reachable device state succeeds
\* and leaves config space, both masks and the three capability offsets as
\* they were.
C8_StateRoundTrip ==
    [][(BodyOf("set_state_mut") /\ call'.src = "self")
          => /\ call'.result = "ok"
             /\ config' = config]_vars

\* C8 witness: the round trip was made on a state restored from an image,
\* whose registers, masks and three offsets are all different from the
\* defaults and from one another.
C8_Witness ==
    /\ HasReturned("set_state_mut")
    /\ call.src = "self"
    /\ call.result = "ok"
    /\ config[call.port].last_cap_end = ImageConfig.last_cap_end
    /\ config[call.port].last_ext_cap_offset # config[call.port].last_ext_cap_end
    /\ config[call.port].write_mask = ImageConfig.write_mask

\* C9: set_state_mut is all-or-nothing: bytes of any other length than the
\* state structure give a decode error and leave all six fields as they
\* were; bytes of that length replace all six fields (the image's six
\* fields become the device's).
C9_SetStateAllOrNothing ==
    [][BodyOf("set_state_mut")
          => IF call'.len # 3 * 4096 + 6
             THEN call'.result = "from_bytes_error" /\ config' = config
             ELSE /\ call'.result = "ok"
                  /\ call'.src = "image" => config'[call'.port] = ImageConfig
                  /\ \A q \in Ports \ {call'.port} : config'[q] = config[q]]_vars

\* C9 witness: bytes one short of the structure were refused on a device
\* whose state differs from the defaults realize installs.
C9_Witness ==
    /\ HasReturned("set_state_mut")
    /\ call.src = "short"
    /\ call.len = 3 * 4096 + 5
    /\ call.result = "from_bytes_error"
    /\ config[call.port] = ImageConfig

NoOverlap(container) ==
    \A i, j \in 1..Len(container) :
        i # j => ~Overlaps(container[i], container[j].offset, container[j].size)

\* C10: no container of the parent bus ever holds two entries with
\* overlapping ranges, and an add_subregion refused for an overlap (in
\* realize or in write_config) leaves the container as it was.
C10_ContainersNeverOverlap ==
    /\ [](NoOverlap(io_region) /\ NoOverlap(mem_region))
    /\ [][/\ ((call.io_install # "overlap" /\ call'.io_install = "overlap")
              \/ (last' # last /\ last'.result = "io_overlap"))
                => io_region' = io_region
          /\ ((call.mem_install # "overlap" /\ call'.mem_install = "overlap")
              \/ (last' # last /\ last'.result = "mem_overlap"))
                => mem_region' = mem_region]_vars

\* C10 witness: a write_config asked for both windows and both additions
\* were refused, each container holding its one entry.
C10_Witness ==
    /\ HasReturned("write_config")
    /\ call.io_install = "overlap"
    /\ call.mem_install = "overlap"
    /\ Len(io_region) = 1
    /\ Len(mem_region) = 1

\* C11: locks are taken in the order parent bus, secondary bus, device: no
\* thread acquires the parent bus' mutex while it holds a device's mutex, and
\* no thread acquires a secondary bus' mutex while it holds the mutex of the
\* bridge that owns that bus.
C11_LockOrder ==
    [][\A L \in Locks :
         (holder[L] = Free /\ holder'[L] # Free) =>
            LET held == Held(holder'[L]) IN
            /\ (L = ParentBus =>
                   \A p \in Ports, fn \in DevFns :
                       PortDev(p) \notin held /\ OtherDev(fn) \notin held)
            /\ (\A p \in Ports : L = SecBus(p) => PortDev(p) \notin held)]_vars

PortsOnBus == {p \in Ports : \E fn \in DevFns : devices[fn] = PortDev(p)}

Registered == {registry[i] : i \in 1..Len(registry)}

\* No realize is under way.
NoRealize == \A p \in Ports : pc[p] \in {"start", "done"}

\* C12: a root port is registered with the migration manager exactly once
\* and only by a realize that succeeded: whenever no realize is under way
\* the registrations are the root ports in the bus' device map, one each; a
\* realize that succeeds has added the registration of its port, and a
\* realize that fails (occupied devfn or refused subregion) leaves none.
C12_RegisteredOnceOnSuccess ==
    [][/\ NoRealize' => /\ Len(registry') = Cardinality(PortsOnBus')
                        /\ Registered' = PortsOnBus'
       /\ \A p \in Ports :
             RealizeEnds(p) =>
                /\ registry' = registry
                /\ Cardinality({i \in 1..Len(registry) : registry[i] = p})
                      = IF last'.result = "ok" THEN 1 ELSE 0
       /\ Len(registry') <= Len(registry) + 1
       /\ \A i \in 1..Len(registry) : registry'[i] = registry[i]]_vars

\* C12 witness: one root port is realized and registered, and the realize
\* of another has just failed on the subregion install.
C12_Witness ==
    /\ last.op = "realize"
    /\ last.result = "io_overlap"
    /\ NoRealize
    /\ Len(registry) = 1
    /\ PortsOnBus = {registry[1]}

Le(S, T, w) == ~Lt(T, S, w)
Ret(c) == [kind |-> c.result, value |-> c.value]

\* C13: for every x and every a > 0 in u64: round_down never returns None;
\* whenever both return a value, round_down(x, a) <= x <= round_up(x, a),
\* both are multiples of a, and both equal x iff x % a = 0; round_up returns
\* None only when x + (a - x % a) exceeds u64::MAX.
C13_RoundBounds ==
    (last.op \in {"round_up", "round_down"} /\ last.result # "pending"
        /\ last.args[2] # {}) =>
        LET x == last.args[1]
            a == last.args[2]
            up == IF last.op = "round_up" THEN Ret(last) ELSE round_up(x, a)
            down == IF last.op = "round_down" THEN Ret(last) ELSE round_down(x, a)
            diff == Rem(x, a, U64_BITS)
            room == wrapping_sub(U64_MAX, x, U64_BITS)
        IN  /\ down.kind = "some"
            /\ up.kind \in {"some", "none"}
            /\ up.kind = "none" =>
                   diff # {} /\ Lt(room, wrapping_sub(a, diff, U64_BITS), U64_BITS)
            /\ up.kind = "some" =>
                   /\ Le(down.value, x, U64_BITS)
                   /\ Le(x, up.value, U64_BITS)
                   /\ Rem(down.value, a, U64_BITS) = {}
                   /\ Rem(up.value, a, U64_BITS) = {}
                   /\ (down.value = x /\ up.value = x) <=> diff = {}

\* C13 witness: round_up was asked for a multiple of 2^63 above 2^63 + 1 and
\* returned None, while round_down of the same operands is 2^63.
C13_Witness ==
    /\ last.op = "round_up"
    /\ last.args = <<{0, 63}, {63}>>
    /\ last.result = "none"
    /\ round_down({0, 63}, {63}) = Some({63})

\* start + length <= w, in unbounded arithmetic.
FieldFits(start, length, w) ==
    /\ Le(start, ToWord(w), U32_BITS)
    /\ Le(length, ToWord(w), U32_BITS)
    /\ ToInt(start) + ToInt(length) <= w

\* Bits [start, start + length) of v, moved down to bit 0.
BitField(v, start, length) ==
    {i - ToInt(start) :
        i \in {j \in v : ToInt(start) <= j /\ j < ToInt(start) + ToInt(length)}}

\* C14: for every 32-bit v and every start, length with start + length <= 32,
\* length 0 and length 32 included, extract_u32(v, start, length) returns the
\* bits [start, start + length) of v, and deposit_u32 of that field at the
\* same place into v returns v.
C14_ExtractDepositRoundTrip ==
    (last.op = "extract_u32" /\ last.result # "pending"
        /\ FieldFits(last.args[2], last.args[3], U32_BITS)) =>
        LET v == last.args[1]
            start == last.args[2]
            length == last.args[3]
        IN  /\ last.result = "some"
            /\ last.value = BitField(v, start, length)
            /\ deposit_u32(v, start, length, last.value, last.overflow_checks)
                  = Some(v)

\* C15: whenever start + length exceeds the word width (32 for extract_u32
\* and deposit_u32, 64 for extract_u64), for any u32 start and length, the
\* helper returns None: it neither panics in its bounds check nor returns a
\* value.
C15_OutOfRangeRejected ==
    /\ (last.op \in {"extract_u32", "deposit_u32"} /\ last.result # "pending"
          /\ ~FieldFits(last.args[2], last.args[3], U32_BITS))
         => last.result = "none"
    /\ (last.op = "extract_u64" /\ last.result # "pending"
          /\ ~FieldFits(last.args[2], last.args[3], U64_BITS))
         => last.result = "none"

\* The first three fields of the bytes get_state_vec returned are the
\* device's config space, write mask and write-clear mask, then comes
\* last_cap_end, and the bytes have the size of the state structure.
StateVecHead(b, cfg) ==
    /\ b.len = RootPortState_size
    /\ bytes_slice(b, 0, PCIE_CONFIG_SPACE_SIZE) = cfg.config
    /\ bytes_slice(b, PCIE_CONFIG_SPACE_SIZE, PCIE_CONFIG_SPACE_SIZE) = cfg.write_mask
    /\ bytes_slice(b, 2 * PCIE_CONFIG_SPACE_SIZE, PCIE_CONFIG_SPACE_SIZE)
          = cfg.write_clear_mask
    /\ u16_at(b, 3 * PCIE_CONFIG_SPACE_SIZE) = cfg.last_cap_end

\* C16 as stated: get_state_vec emits config space, write_mask,
\* write_clear_mask, last_cap_end, then last_ext_cap_end, then
\* last_ext_cap_offset.
C16_OrderEndThenOffset ==
    HasReturned("get_state_vec") =>
        LET cfg == config[call.port] IN
        /\ StateVecHead(call.bytes, cfg)
        /\ u16_at(call.bytes, 3 * PCIE_CONFIG_SPACE_SIZE + U16_SIZE)
              = cfg.last_ext_cap_end
        /\ u16_at(call.bytes, 3 * PCIE_CONFIG_SPACE_SIZE + 2 * U16_SIZE)
              = cfg.last_ext_cap_offset

\* C16, amended: get_state_vec emits config space, write_mask,
\* write_clear_mask, last_cap_end, then last_ext_cap_offset, then
\* last_ext_cap_end (the order of the structure's declaration); a second
\* call on the same device state returns the same bytes.
C16_OrderOffsetThenEnd ==
    HasReturned("get_state_vec") =>
        LET cfg == config[call.port] IN
        /\ StateVecHead(call.bytes, cfg)
        /\ u16_at(call.bytes, 3 * PCIE_CONFIG_SPACE_SIZE + U16_SIZE)
              = cfg.last_ext_cap_offset
        /\ u16_at(call.bytes, 3 * PCIE_CONFIG_SPACE_SIZE + 2 * U16_SIZE)
              = cfg.last_ext_cap_end
        /\ get_state_vec(cfg) = call.bytes

\* C16 witness: get_state_vec was called on a device restored from the
\* image, whose three offsets differ from one another and whose registers
\* and masks are not all zero.
C16_Witness ==
    /\ HasReturned("get_state_vec")
    /\ config[call.port] = ImageConfig
    /\ u16_at(call.bytes, 3 * PCIE_CONFIG_SPACE_SIZE + U16_SIZE) = 300
    /\ u16_at(call.bytes, 3 * PCIE_CONFIG_SPACE_SIZE + 2 * U16_SIZE) = 400

\* The registers whose write calls for the windows (lines 214-221): the
\* byte of COMMAND that holds the enable bits (offset 4), the bridge I/O
\* base and limit (0x1c, 0x1d), and the bridge Memory base and limit
\* registers with their prefetchable and upper halves (0x20 to 0x33).
WindowRegisterWritten(c) ==
    \/ Overlap(c, COMMAND, COMMAND + 1)
    \/ Overlap(c, IO_BASE, IO_BASE + 2)
    \/ Overlap(c, MEMORY_BASE, MEMORY_BASE + 20)

\* The guest is inside a call, past its body.
PastBody == pc[Guest] \in {"io_lock_parent", "io_install", "mem_lock_parent",
                            "mem_install", "finish"}

\* C17: a valid write_config attempts to install the I/O window into the
\* parent's I/O container if and only if its range overlaps one of the
\* window registers and COMMAND, read after the write, has the I/O-enable
\* bit set; likewise the Memory window with the Memory-enable bit.  A call
\* changes a container of the parent only by such an attempt.
C17_InstallAttemptedIff ==
    /\ [](HasReturned("write_config") /\ ~CallInvalid(call) =>
            LET touched == WindowRegisterWritten(call) IN
            /\ call.io_install # "none"
                  <=> (touched /\ io_enabled(config[call.port]))
            /\ call.mem_install # "none"
                  <=> (touched /\ mem_enabled(config[call.port])))
    /\ [][pc'[Guest] # pc[Guest] =>
            LET wanted == /\ call.op = "write_config"
                          /\ ~CallInvalid(call)
                          /\ WindowRegisterWritten(call)
            IN  /\ io_region' # io_region
                     => wanted /\ io_enabled(config[call.port])
                /\ mem_region' # mem_region
                     => wanted /\ mem_enabled(config[call.port])]_vars

\* C17 witness: with both enable bits set by an earlier write, a write of
\* no bytes inside the bridge Memory registers made write_config attempt
\* both windows.
C17_Witness ==
    /\ HasReturned("write_config")
    /\ call.len = 0
    /\ call.offset = ToWord(MEMORY_BASE + 1)
    /\ call.io_install # "none"
    /\ call.mem_install # "none"

\* C18: when update_bar_mapping or a window installation of a valid
\* write_config fails with a region-overlap error, write_config returns
\* normally, the registers are as the write left them, the window whose
\* installation failed is not a subregion of the parent's container, and the
\* Memory installation is still attempted when its enable bit is set.
C18_FailureLeavesWindowUnmapped ==
    [][/\ (/\ pc'[Guest] = "finish"
           /\ call'.op = "write_config"
           /\ call'.result = "ok"
           /\ "overlap" \in {call'.bar_update, call'.io_install, call'.mem_install})
            => LET p == call'.port IN
               /\ call'.io_install = "overlap"
                     => IoRegion(p) \notin Regions(io_region')
               /\ call'.mem_install = "overlap"
                     => MemRegion(p) \notin Regions(mem_region')
               /\ (WindowRegisterWritten(call') /\ mem_enabled(config'[p]))
                     => call'.mem_install # "none"
       /\ BodyOf("write_config") =>
            /\ After'.result # "panic"
            /\ config'[After'.port] =
                  write_config_regs(config[After'.port], After'.offset,
                                    After'.data, overflow_checks)
       /\ (PastBody /\ pc'[Guest] # pc[Guest]) =>
            /\ config'[call.port] = config[call.port]
            /\ pc'[Guest] = "idle" => pc[Guest] = "finish"]_vars

\* A forwarded window is Mapped when it is a subregion of the parent's
\* container.
IoMapped(p) == IoRegion(p) \in Regions(io_region)
MemMapped(p) == MemRegion(p) \in Regions(mem_region)

\* C19: the Mapped/Unmapped state of each forwarded window is toggled only
\* by configuration writes: when realize has succeeded both windows are
\* Unmapped, only a write_config changes whether a window is Mapped (and it
\* changes one window at a time), and when a valid write over COMMAND
\* returns with the I/O-enable (Memory-enable) bit clear the I/O (Memory)
\* window is Unmapped.
C19_WindowsToggledByWrites ==
    [][/\ \A p \in Ports :
             (RealizeEnds(p) /\ last'.result = "ok")
                => ~IoMapped(p)' /\ ~MemMapped(p)'
       /\ \A q \in Ports :
             /\ (IoMapped(q)' # IoMapped(q))
                   => /\ pc[Guest] = "io_install" /\ call.port = q
                      /\ \A r \in Ports : MemMapped(r)' = MemMapped(r)
             /\ (MemMapped(q)' # MemMapped(q))
                   => /\ pc[Guest] = "mem_install" /\ call.port = q
                      /\ \A r \in Ports : IoMapped(r)' = IoMapped(r)
       /\ (/\ pc'[Guest] = "finish" /\ pc[Guest] # "finish"
           /\ call'.op = "write_config" /\ call'.result = "ok"
           /\ Overlap(call', COMMAND, COMMAND + 1))
            => /\ ~io_enabled(config'[call'.port])
                    => IoRegion(call'.port) \notin Regions(io_region')
               /\ ~mem_enabled(config'[call'.port])
                    => MemRegion(call'.port) \notin Regions(mem_region')]_vars

\* The secondary bus of port p exists as long as the device does: from new
\* until a failed realize drops it (a device whose mutex a panicking caller
\* poisoned is still alive, and so is its secondary bus).
SecBusExists(p) == port_state[p] \in {"constructed", "realized", "poisoned"}

\* Port p has been realized with success.
Realized(p) == port_state[p] \in {"realized", "poisoned"}

C21_DevLockReleasedBeforeRegister ==
    [][\A p \in Ports :
          registry' = Append(registry, p) =>
             /\ pc[p] = "register"
             /\ holder[PortDev(p)] # p
             /\ holder'[PortDev(p)] # p
             /\ devices[devfn[p]] = PortDev(p)]_vars

\* C21 witness: a realize has just registered its device; the thread still
\* holds the parent bus but not the device.
C21_Witness ==
    \E p \in Ports :
        /\ pc[p] = "return"
        /\ registry # << >>
        /\ registry[Len(registry)] = p
        /\ holder[PortDev(p)] = Free
        /\ holder[ParentBus] = p

\* Thread t is at a lock() whose mutex thread u holds.
WaitsFor(t, u) == \E L \in Wanted(t) : holder[L] = u

\* The guest thread is inside write_config to COMMAND on port q, with the
\* device's mutex held by its caller.
GuestWritesCommand(q) ==
    /\ PastBody
    /\ call.op = "write_config" /\ call.port = q /\ call.offset = ToWord(COMMAND)
    /\ holder[PortDev(q)] = Guest

\* Thread p is inside realize (past parent_bus.lock(), not yet returned).
InRealize(p) == pc[p] \notin {"start", "done"}

\* C22: no reachable state has two threads each waiting for a mutex the
\* other holds (nor a thread waiting for a mutex it holds itself); in
\* particular not the guest thread inside write_config to COMMAND on a
\* realized root port and a thread realizing a second root port at the same
\* devfn.
C22_NoCircularWait ==
    /\ \A t, u \in Threads : ~(WaitsFor(t, u) /\ WaitsFor(u, t))
    \* and the holder of a mutex somebody waits for can itself go on, so
    \* that both operations run to their return
    /\ \A t, u \in Threads :
          WaitsFor(t, u) => \A L \in Wanted(u) : holder[L] = Free

\* C22 witness: the guest thread, holding the mutex of realized port q inside
\* write_config to COMMAND, waits for the parent bus, which is held by the
\* thread realizing another root port at the same devfn.
C22_Witness ==
    \E q, p \in Ports :
        /\ q # p
        /\ devfn[q] = devfn[p]
        /\ port_state[q] = "realized"
        /\ GuestWritesCommand(q)
        /\ InRealize(p)
        /\ WaitsFor(Guest, p)

\* C23: realize of a root port whose devfn is free on the parent bus
\* succeeds and puts the port into the device map, whatever other root ports
\* are already realized on that bus.
C23_FreeDevfnRealizes ==
    [][\A p \in Ports :
          (RealizeEnds(p) /\ devices[devfn[p]] \in {Vacant, PortDev(p)}) =>
             /\ last'.result = "ok"
             /\ devices'[devfn[p]] = PortDev(p)]_vars

\* C24: a valid write_config to COMMAND that leaves an enable bit set and
\* finds the parent bus gone returns to its caller: the call does not panic
\* where it resolves the parent, the register bytes stay as the write left
\* them and no window is installed.
C24_OrphanWriteReturns ==
    [][(/\ pc[Guest] \in {"io_lock_parent", "mem_lock_parent"}
        /\ ~parent_alive
        /\ call.op = "write_config"
        /\ Overlap(call, COMMAND, COMMAND + 1))
       => /\ pc'[Guest] # "idle"
          /\ last' = last
          /\ port_state' = port_state
          /\ config' = config
          /\ io_region' = io_region
          /\ mem_region' = mem_region]_vars

\* C25: get_state_vec and set_state_mut change nothing outside the
\* configuration model: the parent bus' device map, child_buses and I/O and
\* Memory containers (and with them which windows are Mapped), the device's
\* devfn and identity, its secondary bus' back-reference and the migration
\* registry stay as they were, whatever enable bits the restored COMMAND
\* holds; get_state_vec leaves the configuration model alone as well.
C25_StateCallsFrame ==
    [][(BodyOf("get_state_vec") \/ BodyOf("set_state_mut")) =>
          /\ busvars' = busvars
          /\ devfn' = devfn
          /\ port_state' = port_state
          /\ parent_bridge' = parent_bridge
          /\ registry' = registry
          /\ \A p \in Ports : p # call'.port => config'[p] = config[p]
          /\ call'.op = "get_state_vec" => config' = config]_vars

\* C25 witness: a set_state_mut has just restored a COMMAND whose I/O-enable
\* bit is clear while the I/O window is Mapped.
C25_Witness ==
    /\ HasReturned("set_state_mut")
    /\ call.result = "ok"
    /\ ~io_enabled(config[call.port])
    /\ IoMapped(call.port)

====
